---- MODULE Spec2Model ----
(***************************************************************************)
(* Model of the call-session orchestrator of src/src/sessionManager.ts:    *)
(* the session registry, the per-call Session objects, their two           *)
(* connections, their timers, and the handlers that react to telephony     *)
(* messages, AI-backend events and timer expiries.                         *)
(*                                                                         *)
(* Every handler of the source is a pure operator from a program state S   *)
(* (a record of the module's variables) to the program state it leaves;    *)
(* an action installs the result of one handler run.  Handlers run to      *)
(* completion (one JavaScript event-loop task each).                       *)
(***************************************************************************)
EXTENDS Integers, Sequences, FiniteSets, TLC

\* ---------------------------------------------------------------- bounds
MaxSessions == 2   \* Session objects created in one run
MaxTs == 1         \* media timestamps range over 0..MaxTs
MaxFrames == 2     \* media frames received by one Session
MaxItems == 2      \* assistant output items (turns) of one Session
MaxPending == 1    \* pending anonymous timers of one kind per Session
MaxSteps == 6      \* handler runs of a run of SpecAll
MaxRedials == 3    \* pending delayed re-dials of one destination

StreamSids == {"S1", "S2"}
Conns == {"w1", "w2"}
MarkNames == {"ai_done", "end_call_triggered", "trigger_escalation"}
Timestamps == 0..MaxTs
Items == 1..MaxItems
CallSids == {"C1", "C2"}
FromPhones == {"+1555"}
ToPhones == {"+1777"}
Dests == {"D1", "D2"}
CallStatuses == {"busy", "completed", "no-answer"}
Observers == {"f1", "f2"}

\* An optional value (a field that may be undefined) is <<>> or <<v>>.
None == <<>>
Some(v) == <<v>>
IsSet(x) == x # None
Val(x) == x[1]
\* JavaScript truthiness of an optional number: undefined and 0 are falsy.
Truthy(x) == IsSet(x) /\ Val(x) # 0

Max(a, b) == IF a >= b THEN a ELSE b
Min(a, b) == IF a <= b THEN a ELSE b

VARIABLES
  sessions,       \* the registry Map, as its entries in insertion order
  sess,           \* the Session objects ever created, by object id
  tw,             \* readyState of each telephony websocket
  escalationTem,  \* the exported hand-off response body
  pendingCallInfo,  \* the webhook's call info, by call id
  retryMap,       \* the retry counter of each destination
  retryTimers,    \* pending delayed re-dials, by destination
  retryStale,     \* those of them armed before the last completed signal
  scheduled,      \* re-dials scheduled since the last completed signal
  frontend,       \* readyState of each observer websocket
  frontendConnections,  \* the observer Set, in insertion order
  inserts,        \* conversationDB.insert promises not yet settled
  calls,          \* runFunction promises not yet settled, with their Session
  hist,           \* per Session object: what it has sent and broadcast
  out,            \* the messages the last handler run sent, in order
  lastOp,         \* the handler that ran last, and its stream id
  steps           \* handler runs so far, where a specification counts them

vars ==
  <<lastOp, steps, sessions, sess, tw, escalationTem, pendingCallInfo,
    retryMap, retryTimers, retryStale, scheduled, frontend,
    frontendConnections, inserts, calls, hist, out>>

\* The program state as one value, and its installation as the next state.
\* A handler run starts with nothing sent.
Cur ==
  [sessions |-> sessions, sess |-> sess, tw |-> tw,
   escalationTem |-> escalationTem, pendingCallInfo |-> pendingCallInfo,
   retryMap |-> retryMap, retryTimers |-> retryTimers,
   retryStale |-> retryStale, scheduled |-> scheduled,
   frontend |-> frontend,
   frontendConnections |-> frontendConnections, inserts |-> inserts,
   calls |-> calls, hist |-> hist, out |-> <<>>]

Install(S) ==
  /\ sessions' = S.sessions
  /\ sess' = S.sess
  /\ tw' = S.tw
  /\ escalationTem' = S.escalationTem
  /\ pendingCallInfo' = S.pendingCallInfo
  /\ retryMap' = S.retryMap
  /\ retryTimers' = S.retryTimers
  /\ retryStale' = S.retryStale
  /\ scheduled' = S.scheduled
  /\ frontend' = S.frontend
  /\ frontendConnections' = S.frontendConnections
  /\ inserts' = S.inserts
  /\ calls' = S.calls
  /\ hist' = S.hist
  /\ out' = S.out

\* A handler run, named by its handler, its stream id and, where it has one,
\* its input (a mark's name, a transcript) as a sequence.
OpArg(name, sid, arg) == [name |-> name, sid |-> sid, arg |-> arg]
Op(name, sid) == OpArg(name, sid, <<>>)

\* ------------------------------------------------------------- registry
Keys(S) == {S.sessions[i].sid : i \in 1..Len(S.sessions)}
Has(S, sid) == sid \in Keys(S)
IndexOf(S, sid) == CHOOSE i \in 1..Len(S.sessions) : S.sessions[i].sid = sid
Get(S, sid) == S.sessions[IndexOf(S, sid)].o

\* Map.set: a new key goes last, an existing key keeps its place.
MapSet(S, sid, o) ==
  IF Has(S, sid)
    THEN [S EXCEPT !.sessions[IndexOf(S, sid)].o = o]
    ELSE [S EXCEPT !.sessions = Append(@, [sid |-> sid, o |-> o])]

\* Map.delete
MapDelete(S, sid) ==
  [S EXCEPT !.sessions =
     SelectSeq(@, LAMBDA e : e.sid # sid)]

\* ---------------------------------------------------------- connections
\* WebSocket.close() on a telephony socket.
closeTwilioConn(S, w) ==
  IF S.tw[w] = "open" THEN [S EXCEPT !.tw[w] = "closing"] ELSE S

\* WebSocket.close() on a Session's AI-backend socket.
closeModelConn(S, o) ==
  IF S.sess[o].modelConn \in {"connecting", "open"}
    THEN [S EXCEPT !.sess[o].modelConn = "closing"]
    ELSE S

\* session.frontendConn?.close()
closeFrontendConn(S, o) ==
  IF IsSet(S.sess[o].frontendConn)
     /\ S.frontend[Val(S.sess[o].frontendConn)] = "open"
    THEN [S EXCEPT !.frontend[Val(S.sess[o].frontendConn)] = "closing"]
    ELSE S

\* ---------------------------------------------------------------- timers
\* A timer handle is "undef", "live" (its timer is pending) or "stale".
setTimeoutH(S, o, k) ==
  [S EXCEPT !.sess[o].pend[k] = @ + 1, !.sess[o].handle[k] = "live"]

\* clearTimeout of a pending timer is noted among the handler run's calls.
clearTimeoutH(S, o, k) ==
  IF S.sess[o].handle[k] = "live"
    THEN [S EXCEPT !.sess[o].pend[k] = @ - 1, !.sess[o].handle[k] = "stale",
                   !.out = Append(@, [to |-> "timers", o |-> o,
                                      type |-> "clearTimeout", arg |-> k])]
    ELSE S

\* if (session.t) { clearTimeout(session.t); session.t = undefined; }
clearAndUnset(S, o, k) ==
  IF S.sess[o].handle[k] # "undef"
    THEN [clearTimeoutH(S, o, k) EXCEPT !.sess[o].handle[k] = "undef"]
    ELSE S

\* setTimeout whose handle is not kept.
setTimeoutAnon(S, o, k) == [S EXCEPT !.sess[o].pend[k] = @ + 1]

\* The expiry of one pending timer of kind k: the one the handle names
\* (byHandle) or one that no handle names any more.
Named(s, k) == k \in DOMAIN s.handle /\ s.handle[k] = "live"

CanExpire(s, k, byHandle) ==
  IF byHandle
    THEN Named(s, k)
    ELSE s.pend[k] > (IF Named(s, k) THEN 1 ELSE 0)

expire(S, o, k, byHandle) ==
  IF byHandle
    THEN [S EXCEPT !.sess[o].pend[k] = @ - 1, !.sess[o].handle[k] = "stale"]
    ELSE [S EXCEPT !.sess[o].pend[k] = @ - 1]

\* -------------------------------------------------------------- outputs
\* send(ws, payload): the payload goes out only on an OPEN socket.
Msg(to, o, type, arg) == [to |-> to, o |-> o, type |-> type, arg |-> arg]

sendModel(S, o, type, arg) ==
  IF S.sess[o].modelConn = "open"
    THEN [S EXCEPT !.out = Append(@, Msg("model", o, type, arg))]
    ELSE S

sendTwilio(S, o, type, arg) ==
  IF S.tw[S.sess[o].twilioConn] = "open"
    THEN [S EXCEPT !.out = Append(@, Msg("twilio", o, type, arg))]
    ELSE S

\* The payload's phone numbers and call id, each of them or none.
Info(from, to, callSid) == [from |-> from, to |-> to, callSid |-> callSid]

\* An exception no handler catches (the server installs no
\* uncaughtException handler), noted among the handler run's outputs.
throw(S, o, what) ==
  [S EXCEPT !.out = Append(@, Msg("process", o, "uncaughtException", what))]

\* The loop of broadcastToFrontend, lines 777-790: the payload goes to the
\* observers of the set that are OPEN, in the set's order, and the others
\* leave the set.  (send on an OPEN socket is taken not to throw.)
pushToFrontend(S, o, type, info) ==
  LET open == SelectSeq(S.frontendConnections,
                        LAMBDA f : S.frontend[f] = "open")
  IN [S EXCEPT
        !.frontendConnections = open,
        !.out = @ \o [i \in 1..Len(open) |->
                        Msg("frontend", o, type,
                            [conn |-> open[i], info |-> info])]]

\* The fields the lifecycle notices carry, lines 144-150, 294-300, 312-316,
\* 323-326 and 693-699.
NoticeInfo(S, o, type) ==
  IF type \in {"call.started", "session.created", "call.ended"}
    THEN Info(S.sess[o].fromPhoneNumber, S.sess[o].toPhoneNumber,
              S.sess[o].callSid)
    ELSE Info(None, None, None)

\* broadcastToFrontend of a lifecycle notice about Session o.
broadcastToFrontend(S, o, type) ==
  pushToFrontend([S EXCEPT !.hist[o].notices = Append(@, type)],
                 o, type, NoticeInfo(S, o, type))

\* ------------------------------------------------------------- sessions
\* storeCallInfo: pendingCallInfo.set(callSid, { from, to })
storeCallInfo(S, callSid, from, to) ==
  [S EXCEPT !.pendingCallInfo[callSid] = Some([from |-> from, to |-> to])]

\* retrieveCallInfo: the entry it returns (none for an undefined call id
\* or a missing entry), and the map it leaves (the entry deleted).
retrievedInfo(S, callSid) ==
  IF IsSet(callSid) THEN S.pendingCallInfo[Val(callSid)] ELSE None

retrieveCallInfo(S, callSid) ==
  IF IsSet(retrievedInfo(S, callSid))
    THEN [S EXCEPT !.pendingCallInfo[Val(callSid)] = None]
    ELSE S

NewSession(sid, w, callSid, callInfo) ==
  [streamSid |-> sid,
   callSid |-> callSid,
   fromPhoneNumber |-> IF IsSet(callInfo) THEN Some(Val(callInfo).from) ELSE None,
   toPhoneNumber |-> IF IsSet(callInfo) THEN Some(Val(callInfo).to) ELSE None,
   twilioConn |-> w,
   modelConn |-> "connecting",
   frontendConn |-> None,
   latestMediaTimestamp |-> 0,
   hasAssistantSpoken |-> FALSE,
   isModelErr |-> FALSE,
   callerState |-> "idle",
   isSpeechStopped |-> FALSE,
   isBargeInAvailable |-> FALSE,
   isAiSpeaking |-> FALSE,
   escalationTriggered |-> FALSE,
   lastAssistantItemId |-> None,
   responseStartTimestamp |-> None,
   handle |-> [greeting |-> "undef", silence |-> "undef", speech |-> "undef"],
   pend |-> [greeting |-> 0, silence |-> 0, speech |-> 0,
             grace |-> 0, endCall |-> 0, escalation |-> 0]]

NewHist ==
  [notices |-> <<>>,    \* lifecycle notices broadcast about the Session
   rx |-> 0,            \* media frames received for the Session
   fwd |-> <<>>,        \* frames forwarded to the AI backend, by arrival number
   turnItem |-> None,   \* item of the assistant turn in progress
   turnT0 |-> None,     \* local clock at that turn's first audio frame
   lastSpeech |-> "none",  \* the last caller-speech event received
   graceFired |-> FALSE,   \* a grace timer of the Session has expired
   template |-> None,      \* the hand-off body the Session last selected
   heardInSilence |-> FALSE,  \* speech_started came since state silence began
   truncated |-> {}]       \* items for which a truncate was requested

\* case "start"
handleStart(S, w, sid, callSid) ==
  LET o == Len(S.sess) + 1
      callInfo == retrievedInfo(S, callSid)
      S0 == retrieveCallInfo(S, callSid)
      S1 == [S0 EXCEPT
               !.sess = Append(@, NewSession(sid, w, callSid, callInfo)),
               !.hist = Append(@, NewHist)]
      S2 == MapSet(S1, sid, o)
  IN broadcastToFrontend(S2, o, "call.started")

\* closeSession without its sessions.delete: the entry outlives the cleanup.
closeSessionNoDelete(S, sid) ==
  IF ~Has(S, sid) THEN S
  ELSE LET o == Get(S, sid)
           S1 == broadcastToFrontend(S, o, "call.ended")
           S2 == closeTwilioConn(S1, S1.sess[o].twilioConn)
           S3 == closeFrontendConn(closeModelConn(S2, o), o)
       IN clearTimeoutH(S3, o, "greeting")

closeSession(S, sid) ==
  IF ~Has(S, sid) THEN S
  ELSE LET o == Get(S, sid)
           S1 == broadcastToFrontend(S, o, "call.ended")
           S2 == closeTwilioConn(S1, S1.sess[o].twilioConn)
           S3 == closeFrontendConn(closeModelConn(S2, o), o)
           S4 == clearTimeoutH(S3, o, "greeting")
       IN MapDelete(S4, sid)

\* The first registry entry, in insertion order, whose Session uses socket w.
cleanupByTwilio(S, w) ==
  LET hits == {i \in 1..Len(S.sessions) :
                 S.sess[S.sessions[i].o].twilioConn = w}
  IN IF hits = {} THEN S
     ELSE LET i == CHOOSE j \in hits : \A k \in hits : j <= k
          IN closeSession(S, S.sessions[i].sid)

\* ----------------------------------------------------- terminal actions
\* send(session.twilioConn, clear); twilioConn.close(); modelConn.close()
clearAndCloseBoth(S, o) ==
  LET S1 == sendTwilio(S, o, "clear", 0)
  IN closeModelConn(closeTwilioConn(S1, S1.sess[o].twilioConn), o)

\* escalationTem = ...: the module's one hand-off body is overwritten;
\* hist notes the body as the one that Session o selected.
setEscalationTem(S, o, body) ==
  [S EXCEPT !.escalationTem = body, !.hist[o].template = Some(body)]

triggerEscalation(S, o) ==
  IF S.sess[o].escalationTriggered THEN S
  ELSE LET S1 == setEscalationTem(
                   [S EXCEPT !.sess[o].escalationTriggered = TRUE], o,
                   IF S.sess[o].isModelErr THEN "unavailable" ELSE "hold")
       IN clearAndCloseBoth(S1, o)

\* endCall that also drops the Session's registry entry.
endCallAndRemove(S, o) ==
  LET cs == S.sess[o].callerState
      S1 == IF cs = "silence" THEN setEscalationTem(S, o, "silence_bye")
            ELSE IF cs = "idle" THEN setEscalationTem(S, o, "thanks_bye")
            ELSE S
  IN MapDelete(clearAndCloseBoth(S1, o), S.sess[o].streamSid)

endCall(S, o) ==
  LET cs == S.sess[o].callerState
      S1 == IF cs = "silence" THEN setEscalationTem(S, o, "silence_bye")
            ELSE IF cs = "idle" THEN setEscalationTem(S, o, "thanks_bye")
            ELSE S
  IN clearAndCloseBoth(S1, o)

\* The <<Silence>> prompt and response.create go to the AI backend.
handleSilence(S, o) ==
  sendModel([S EXCEPT !.sess[o].callerState = "silence",
                      !.hist[o].heardInSilence = FALSE],
            o, "silence", 0)

\* The <<Greeting>> turn and response.create go to the AI backend.
sendGreeting(S, o) ==
  IF S.sess[o].hasAssistantSpoken THEN S
  ELSE sendModel([S EXCEPT !.sess[o].hasAssistantSpoken = TRUE],
                 o, "greeting", 0)

\* ------------------------------------------------------------ barge-in
\* The truncate message carries item_id and audio_end_ms; t0 and t1 record
\* the responseStartTimestamp and latestMediaTimestamp it was computed from.

\* interruptAssistant with audio_end_ms left unclamped.
interruptAssistantNoClamp(S, o) ==
  LET s == S.sess[o]
      elapsedMs == s.latestMediaTimestamp - Val(s.responseStartTimestamp)
  IN IF ~IsSet(s.lastAssistantItemId) \/ ~IsSet(s.responseStartTimestamp)
       THEN S
     ELSE IF ~s.isBargeInAvailable THEN S
     ELSE LET S1 == [S EXCEPT !.sess[o].callerState = "speaking"]
              S2 == sendModel(S1, o, "truncate",
                              [item_id |-> Val(s.lastAssistantItemId),
                               audio_end_ms |-> elapsedMs,
                               t0 |-> Val(s.responseStartTimestamp),
                               t1 |-> s.latestMediaTimestamp])
              S3 == sendTwilio(S2, o, "clear", 0)
          IN [S3 EXCEPT !.sess[o].lastAssistantItemId = None,
                        !.sess[o].responseStartTimestamp = None,
                        !.hist[o].truncated =
                           @ \cup {Val(s.lastAssistantItemId)}]

\* interruptAssistant that leaves the item and its start recorded.
interruptAssistantKeepsItem(S, o) ==
  LET s == S.sess[o]
      elapsedMs == s.latestMediaTimestamp - Val(s.responseStartTimestamp)
  IN IF ~IsSet(s.lastAssistantItemId) \/ ~IsSet(s.responseStartTimestamp)
       THEN S
     ELSE IF ~s.isBargeInAvailable THEN S
     ELSE LET S1 == [S EXCEPT !.sess[o].callerState = "speaking"]
              S2 == sendModel(S1, o, "truncate",
                              [item_id |-> Val(s.lastAssistantItemId),
                               audio_end_ms |-> Max(0, elapsedMs),
                               t0 |-> Val(s.responseStartTimestamp),
                               t1 |-> s.latestMediaTimestamp])
          IN sendTwilio(S2, o, "clear", 0)

interruptAssistant(S, o) ==
  LET s == S.sess[o]
      elapsedMs == s.latestMediaTimestamp - Val(s.responseStartTimestamp)
  IN IF ~IsSet(s.lastAssistantItemId) \/ ~IsSet(s.responseStartTimestamp)
       THEN S
     ELSE IF ~s.isBargeInAvailable THEN S
     ELSE LET S1 == [S EXCEPT !.sess[o].callerState = "speaking"]
              S2 == sendModel(S1, o, "truncate",
                              [item_id |-> Val(s.lastAssistantItemId),
                               audio_end_ms |-> Max(0, elapsedMs),
                               t0 |-> Val(s.responseStartTimestamp),
                               t1 |-> s.latestMediaTimestamp])
              S3 == sendTwilio(S2, o, "clear", 0)
          IN [S3 EXCEPT !.sess[o].lastAssistantItemId = None,
                        !.sess[o].responseStartTimestamp = None,
                        !.hist[o].truncated =
                           @ \cup {Val(s.lastAssistantItemId)}]

\* The speech-settle callback without its test of isSpeechStopped.
speechTimerCallbackNoCheck(S, o) ==
  LET S1 == clearAndUnset(S, o, "silence")
      S2 == clearAndUnset(S1, o, "greeting")
      S3 == [S2 EXCEPT !.sess[o].isBargeInAvailable = TRUE]
  IN interruptAssistant(S3, o)

\* The callback of the speech-settle timer (300 ms after speech_started).
speechTimerCallback(S, o) ==
  IF S.sess[o].isSpeechStopped THEN S
  ELSE LET S1 == clearAndUnset(S, o, "silence")
           S2 == clearAndUnset(S1, o, "greeting")
           S3 == [S2 EXCEPT !.sess[o].isBargeInAvailable = TRUE]
       IN interruptAssistant(S3, o)

\* The callback of the grace timer (400 ms after a turn's first frame).
graceTimerCallback(S, o) ==
  [S EXCEPT !.sess[o].isBargeInAvailable = TRUE,
            !.hist[o].graceFired = TRUE]

\* The callback of the greeting timer (100 ms after the AI socket opens).
greetingTimerCallback(S, o) ==
  IF S.sess[o].callerState = "idle" /\ ~S.sess[o].hasAssistantSpoken
    THEN sendGreeting(S, o)
    ELSE S

\* The silence callback that ends the call at the first expiry.
silenceTimerCallbackEndsAtOnce(S, o) ==
  LET s == S.sess[o]
  IN CASE s.callerState = "idle" ->
            IF ~s.isAiSpeaking THEN endCall(S, o) ELSE S
       [] s.callerState = "silence" -> endCall(S, o)
       [] s.callerState = "speaking" ->
            [S EXCEPT !.sess[o].callerState = "idle"]

\* The callback of the silence timer (8 s after the ai_done mark).
silenceTimerCallback(S, o) ==
  LET s == S.sess[o]
  IN CASE s.callerState = "idle" ->
            IF ~s.isAiSpeaking THEN handleSilence(S, o) ELSE S
       [] s.callerState = "silence" -> endCall(S, o)
       [] s.callerState = "speaking" ->
            [S EXCEPT !.sess[o].callerState = "idle"]

\* The deferred end-call (5 s) and escalation (800 ms) callbacks.
endCallTimerCallback(S, o) ==
  IF S.sess[o].callerState # "speaking" THEN endCall(S, o) ELSE S

escalationTimerCallback(S, o) ==
  IF S.sess[o].callerState # "speaking" THEN triggerEscalation(S, o) ELSE S

\* ---------------------------------------------------- telephony messages
\* send(ws, payload) of a media frame to the AI backend, with the frame
\* put in front of what was already sent.
sendFrameReordered(S, o, frame) ==
  IF S.sess[o].modelConn = "open"
    THEN [S EXCEPT !.hist[o].fwd = <<frame>> \o @]
    ELSE S

\* send(session.modelConn, input_audio_buffer.append): dropped unless OPEN.
sendFrame(S, o, frame) ==
  IF S.sess[o].modelConn = "open"
    THEN [S EXCEPT !.hist[o].fwd = Append(@, frame)]
    ELSE S

\* case "media"; the frame is named by its arrival number.
handleMedia(S, sid, ts) ==
  IF ~Has(S, sid) THEN S
  ELSE LET o == Get(S, sid)
           frame == S.hist[o].rx + 1
           S1 == [S EXCEPT !.sess[o].latestMediaTimestamp = ts,
                           !.hist[o].rx = frame]
       IN sendFrame(S1, o, frame)

\* case "mark" that arms the silence timer without cancelling the old one.
handleMarkNoClear(S, sid, name) ==
  IF ~Has(S, sid) THEN S
  ELSE LET o == Get(S, sid)
           S1 == [S EXCEPT !.sess[o].isAiSpeaking = FALSE]
           S2 == IF name = "ai_done"
                   THEN setTimeoutH(
                          [S1 EXCEPT !.sess[o].isBargeInAvailable = FALSE],
                          o, "silence")
                   ELSE S1
           S3 == IF name = "end_call_triggered"
                   THEN setTimeoutAnon(S2, o, "endCall") ELSE S2
       IN IF name = "trigger_escalation"
            THEN setTimeoutAnon(S3, o, "escalation") ELSE S3

\* case "mark"
handleMark(S, sid, name) ==
  IF ~Has(S, sid) THEN S
  ELSE LET o == Get(S, sid)
           S1 == [S EXCEPT !.sess[o].isAiSpeaking = FALSE]
           S2 == IF name = "ai_done"
                   THEN setTimeoutH(
                          clearAndUnset(
                            [S1 EXCEPT !.sess[o].isBargeInAvailable = FALSE],
                            o, "silence"),
                          o, "silence")
                   ELSE S1
           S3 == IF name = "end_call_triggered"
                   THEN setTimeoutAnon(S2, o, "endCall") ELSE S2
       IN IF name = "trigger_escalation"
            THEN setTimeoutAnon(S3, o, "escalation") ELSE S3

\* A telephony payload that is not JSON ("notjson": parse gives null and
\* the handler returns, line 101), or an event without the object the
\* handler reads: "start" without start (msg.start.streamSid throws,
\* line 105), "media" without media (msg.media.timestamp throws, line 164)
\* and "mark" without mark (msg.mark.name throws, line 179, after
\* isAiSpeaking was set).  media and mark return first when the stream id
\* has no Session.
TwilioMalformed == {"notjson", "start", "media", "mark"}

handleTwilioMalformed(S, sid, kind) ==
  CASE kind = "notjson" -> S
    [] kind = "start" -> throw(S, 0, "TypeError")
    [] kind = "media" ->
         IF ~Has(S, sid) THEN S ELSE throw(S, Get(S, sid), "TypeError")
    [] kind = "mark" ->
         IF ~Has(S, sid) THEN S
         ELSE throw([S EXCEPT !.sess[Get(S, sid)].isAiSpeaking = FALSE],
                    Get(S, sid), "TypeError")

\* ---------------------------------------------------- AI-backend events
\* A transcript is a sequence of words; String.includes of a sentinel.
Includes(text, sentinel) == \E i \in 1..Len(text) : text[i] = sentinel

Texts == {<<"hello">>, <<"ok", "/////">>, <<"/////", "ok">>,
          <<"bye", "/?/">>, <<"/?/", "/////">>}

\* An event: its type, its item, its transcript (of the item's first
\* content part, of the part, or the delta), whether its error message has
\* "Too Many Requests", and, for a function_call item, what the call is.
Ev(type, item, text, tooMany) ==
  [type |-> type, item_id |-> item, text |-> text, tooMany |-> tooMany,
   fn |-> "none"]

\* response.output_item.done of a function_call item: a call of a known
\* function that returns ("ok") or whose handler throws ("throws"), of a
\* function that is not in the list ("unknown"), or with arguments that are
\* not JSON ("badargs").
FnKinds == {"ok", "throws", "unknown", "badargs"}
FnEv(kind) == [Ev("response.output_item.done", 0, <<>>, FALSE)
                 EXCEPT !.fn = kind]

ModelEvents ==
  {Ev(ty, 0, <<>>, FALSE) :
     ty \in {"input_audio_buffer.speech_started",
             "input_audio_buffer.speech_stopped",
             "response.audio.done"}}
  \cup {Ev("response.audio.delta", i, <<>>, FALSE) : i \in Items}
  \cup {Ev("response.output_item.done", 0, tx, FALSE) : tx \in Texts}
  \cup {Ev("conversation.item.input_audio_transcription.failed", 0, <<>>, b) :
          b \in BOOLEAN}

\* switch (event.type), lines 407-430
onFailure(S, o, ev) ==
  IF ev.type = "conversation.item.input_audio_transcription.failed"
     /\ ev.tooMany
    THEN triggerEscalation([S EXCEPT !.sess[o].isModelErr = TRUE], o)
    ELSE S

\* speech_stopped that also takes the caller state from speaking to idle.
onSpeechStoppedSetsIdle(S, o, ev) ==
  IF ev.type = "input_audio_buffer.speech_stopped"
    THEN [S EXCEPT !.sess[o].isSpeechStopped = TRUE,
                   !.sess[o].callerState = IF @ = "speaking" THEN "idle" ELSE @,
                   !.hist[o].lastSpeech = "stopped"]
    ELSE S

onSpeechStopped(S, o, ev) ==
  IF ev.type = "input_audio_buffer.speech_stopped"
    THEN [S EXCEPT !.sess[o].isSpeechStopped = TRUE,
                   !.hist[o].lastSpeech = "stopped"]
    ELSE S

onSpeechStarted(S, o, ev) ==
  IF ev.type = "input_audio_buffer.speech_started"
    THEN setTimeoutH(
           clearAndUnset([S EXCEPT !.sess[o].isSpeechStopped = FALSE,
                                   !.hist[o].lastSpeech = "started",
                                   !.hist[o].heardInSilence =
                                      @ \/ S.sess[o].callerState = "silence"],
                         o, "speech"),
           o, "speech")
    ELSE S

\* response.audio.delta; hist tracks the turn (a new item is a new turn).
onAudioDelta(S, o, ev) ==
  IF ev.type # "response.audio.delta" THEN S
  ELSE LET s == S.sess[o]
           first == ~Truthy(s.responseStartTimestamp)
           S1 == [S EXCEPT
                    !.sess[o].hasAssistantSpoken = TRUE,
                    !.sess[o].isAiSpeaking = TRUE,
                    !.sess[o].responseStartTimestamp =
                       IF first THEN Some(s.latestMediaTimestamp) ELSE @,
                    !.sess[o].lastAssistantItemId = Some(ev.item_id),
                    !.hist[o].turnItem = Some(ev.item_id),
                    !.hist[o].turnT0 =
                       IF S.hist[o].turnItem # Some(ev.item_id)
                         THEN Some(s.latestMediaTimestamp) ELSE @]
           S2 == IF first THEN setTimeoutAnon(S1, o, "grace") ELSE S1
       IN sendTwilio(S2, o, "media", ev.item_id)

speakingToIdle(S, o) ==
  IF S.sess[o].callerState = "speaking"
    THEN [S EXCEPT !.sess[o].callerState = "idle"]
    ELSE S

\* response.audio.done that starts the silence timer itself.
onAudioDoneArmsSilence(S, o, ev) ==
  IF ev.type = "response.audio.done"
    THEN setTimeoutH(
           clearAndUnset(
             speakingToIdle(sendTwilio(S, o, "mark", "ai_done"), o),
             o, "silence"),
           o, "silence")
    ELSE S

onAudioDone(S, o, ev) ==
  IF ev.type = "response.audio.done"
    THEN speakingToIdle(sendTwilio(S, o, "mark", "ai_done"), o)
    ELSE S

\* response.output_item.done that looks for the escalation sentinel at the
\* start of the transcript only.
onOutputItemDoneSentinelFirst(S, o, ev) ==
  IF ev.type # "response.output_item.done" \/ ev.text = <<>> THEN S
  ELSE IF ev.text[1] = "/////"
    THEN speakingToIdle(sendTwilio(S, o, "mark", "trigger_escalation"), o)
  ELSE IF Includes(ev.text, "/?/") /\ S.sess[o].callerState # "silence"
    THEN speakingToIdle(sendTwilio(S, o, "mark", "end_call_triggered"), o)
  ELSE S

\* response.output_item.done of a message item with a transcript
onOutputItemDone(S, o, ev) ==
  IF ev.type # "response.output_item.done" \/ ev.text = <<>> THEN S
  ELSE IF Includes(ev.text, "/////")
    THEN speakingToIdle(sendTwilio(S, o, "mark", "trigger_escalation"), o)
  ELSE IF Includes(ev.text, "/?/") /\ S.sess[o].callerState # "silence"
    THEN speakingToIdle(sendTwilio(S, o, "mark", "end_call_triggered"), o)
  ELSE S

\* runFunction without its catch: what is thrown rejects the promise.
runFunctionRethrows(kind) ==
  CASE kind = "unknown" ->
         [settled |-> "resolved", output |-> [error |-> "Unknown function"]]
    [] kind = "ok" ->
         [settled |-> "resolved", output |-> [temperature |-> 0]]
    [] OTHER -> [settled |-> "rejected", output |-> [error |-> "e.message"]]

\* runFunction: how its promise settles, and with what (the object whose
\* JSON text is the output).
runFunction(kind) ==
  CASE kind = "unknown" ->
         [settled |-> "resolved", output |-> [error |-> "Unknown function"]]
    [] kind = "ok" ->
         [settled |-> "resolved", output |-> [temperature |-> 0]]
    [] OTHER -> [settled |-> "resolved", output |-> [error |-> "e.message"]]

\* The .then callback of lines 566-576; a rejection has no handler.
onFunctionResult(S, o, r) ==
  IF r.settled = "resolved"
    THEN sendModel(
           sendModel(S, o, "conversation.item.create",
                     [type |-> "function_call_output", output |-> r.output]),
           o, "response.create", 0)
    ELSE throw(S, o, "unhandledRejection")

\* An unknown function and unparsable arguments settle the promise before
\* runFunction first awaits: the callback runs when the handler run ends,
\* before any other handler.  A call of a known function settles later.
SettlesAtOnce(kind) == kind \in {"unknown", "badargs"}

\* if (item.type === "function_call"), lines 564-577: the part that runs
\* within the handler, and the part that runs when the handler has ended.
onFunctionCall(S, o, ev) ==
  IF ev.fn = "none" \/ SettlesAtOnce(ev.fn) THEN S
  ELSE [S EXCEPT !.calls = Append(@, [o |-> o, kind |-> ev.fn])]

afterFunctionCall(S, o, ev) ==
  IF ev.fn # "none" /\ SettlesAtOnce(ev.fn)
    THEN onFunctionResult(S, o, runFunction(ev.fn))
    ELSE S

\* eventWithPhoneInfo, lines 582-588: a number or a call id is added when
\* it is truthy.
Known(x) == IF IsSet(x) /\ Val(x) # "" THEN x ELSE None
PhoneInfo(s) ==
  Info(Known(s.fromPhoneNumber), Known(s.toPhoneNumber), Known(s.callSid))

\* The two inserts of broadcastToFrontend, lines 726-774: the promise of
\* conversationDB.insert is left to settle by itself.
Persisted(ev) ==
  \/ ev.type = "response.content_part.done" /\ ev.text # <<>>
  \/ ev.type = "conversation.item.input_audio_transcription.delta"

startInsert(S, ev) ==
  IF Persisted(ev) THEN [S EXCEPT !.inserts = @ + 1] ELSE S

\* broadcastToFrontend of an event that waits for the insert to settle
\* before it pushes the event.
broadcastEventAwaitsInsert(S, o, ev) ==
  IF Persisted(ev) THEN startInsert(S, ev)
  ELSE pushToFrontend(S, o, ev.type, PhoneInfo(S.sess[o]))

\* broadcastToFrontend(eventWithPhoneInfo)
broadcastEvent(S, o, ev) ==
  pushToFrontend(startInsert(S, ev), o, ev.type, PhoneInfo(S.sess[o]))

\* The escalation sentinel's branch ends the handler at its return,
\* line 530.
ReturnsEarly(ev) ==
  /\ ev.type = "response.output_item.done"
  /\ ev.text # <<>>
  /\ Includes(ev.text, "/////")

handleModelMessage(S, o, ev) ==
  LET S1 == onOutputItemDone(
              onAudioDone(
                onAudioDelta(
                  onSpeechStarted(
                    onSpeechStopped(
                      onFailure(S, o, ev), o, ev), o, ev), o, ev), o, ev),
              o, ev)
  IN IF ReturnsEarly(ev) THEN S1
     ELSE afterFunctionCall(
            broadcastEvent(onFunctionCall(S1, o, ev), o, ev), o, ev)

\* A payload of the AI backend that is not JSON ("notjson": event is null
\* and event.type throws, line 407), a response.output_item.done without
\* item ("noitem": item.type throws, line 564), or an object without type
\* ("notype": no branch is taken and the object is broadcast).
ModelMalformed == {"notjson", "noitem", "notype"}

handleModelMalformed(S, o, kind) ==
  IF kind = "notype"
    THEN pushToFrontend(S, o, "undefined", PhoneInfo(S.sess[o]))
    ELSE throw(S, o, "TypeError")

\* ------------------------------------------------------------ observers
\* handleFrontendConnection: frontendConnections.add(ws)
SetAdd(seq, f) ==
  IF \E i \in 1..Len(seq) : seq[i] = f THEN seq ELSE Append(seq, f)
SetDelete(seq, f) == SelectSeq(seq, LAMBDA g : g # f)

handleFrontendConnection(S, f) ==
  [S EXCEPT !.frontend[f] = "open",
            !.frontendConnections = SetAdd(@, f)]

\* The observer's message handler: session.update goes to the AI socket
\* of every registered Session whose socket is OPEN, in the registry's
\* order.
\* A message of an observer, as parse gives it: its type, its streamSid or
\* none, and the rest of it.
FrontendMsg(type, streamSid, body) ==
  [type |-> type, streamSid |-> streamSid, body |-> body]

\* The forwarding loop that stops after the first Session it sends to.
RECURSIVE forwardUpdateFirstOnly(_, _, _)
forwardUpdateFirstOnly(S, i, msg) ==
  IF i > Len(S.sessions) THEN S
  ELSE IF S.sess[S.sessions[i].o].modelConn = "open"
    THEN sendModel(S, S.sessions[i].o, "session.update", msg)
    ELSE forwardUpdateFirstOnly(S, i + 1, msg)

RECURSIVE forwardUpdate(_, _, _)
forwardUpdate(S, i, msg) ==
  IF i > Len(S.sessions) THEN S
  ELSE forwardUpdate(sendModel(S, S.sessions[i].o, "session.update", msg),
                     i + 1, msg)

\* A message with a stream id attaches the observer to that Session.
onFrontendStreamSid(S, f, sid) ==
  IF Has(S, sid)
    THEN [S EXCEPT !.sess[Get(S, sid)].frontendConn = Some(f)]
    ELSE S

\* ws.on("message") of an observer, lines 49-73: session.update is
\* forwarded and the handler returns; any other message with a stream id
\* attaches the observer.
handleFrontendMessage(S, f, msg) ==
  IF msg.type = "session.update" THEN forwardUpdate(S, 1, msg)
  ELSE IF IsSet(msg.streamSid)
    THEN onFrontendStreamSid(S, f, Val(msg.streamSid))
  ELSE S

\* ws.on("close"): the observer leaves the set and the registered Sessions
\* that name it.
onFrontendClose(S, f) ==
  LET reg == {S.sessions[i].o : i \in 1..Len(S.sessions)}
  IN [S EXCEPT
        !.frontend[f] = "closed",
        !.frontendConnections = SetDelete(@, f),
        !.sess = [o \in DOMAIN S.sess |->
                    IF o \in reg /\ S.sess[o].frontendConn = Some(f)
                      THEN [S.sess[o] EXCEPT !.frontendConn = None]
                      ELSE S.sess[o]]]

\* ws.on("error"): the observer leaves the set; its socket goes on to its
\* close event.
onFrontendError(S, f) ==
  [S EXCEPT !.frontend[f] = IF @ = "open" THEN "closing" ELSE @,
            !.frontendConnections = SetDelete(@, f)]

\* POST /escalate: the response body is the module's hand-off body.
escalate(S) ==
  [S EXCEPT !.out = Append(@, Msg("carrier", 0, "escalate",
                                  S.escalationTem))]

\* ------------------------------------------- AI-backend socket handlers
\* modelConn.on("open")
onModelOpen(S, o) ==
  broadcastToFrontend(
    setTimeoutH([S EXCEPT !.sess[o].modelConn = "open"], o, "greeting"),
    o, "session.created")

\* modelConn.on("error") that only sets the flag and reports the error.
onModelErrorNoEscalation(S, o) ==
  broadcastToFrontend([S EXCEPT !.sess[o].isModelErr = TRUE], o, "error")

\* modelConn.on("error")
onModelError(S, o) ==
  broadcastToFrontend(
    triggerEscalation([S EXCEPT !.sess[o].isModelErr = TRUE], o),
    o, "error")

\* modelConn.on("close")
onModelClose(S, o) ==
  broadcastToFrontend([S EXCEPT !.sess[o].modelConn = "closed"],
                      o, "session.disconnected")

\* ------------------------------------------------------ retry scheduler
MAX_RETRIES == 3

\* scheduleRetry with the limit tested one attempt late.
scheduleRetryOffByOne(S, to) ==
  LET attempts == IF IsSet(S.retryMap[to]) THEN Val(S.retryMap[to]) ELSE 0
  IN IF attempts > MAX_RETRIES
       THEN [S EXCEPT !.retryMap[to] = None]
       ELSE [S EXCEPT !.retryMap[to] = Some(attempts + 1),
                      !.retryTimers[to] = @ + 1,
                      !.scheduled[to] = Min(@ + 1, MaxRedials + 1)]

\* scheduleRetry(to, from); the re-dial is a timer of RETRY_DELAY_MS.
scheduleRetry(S, to) ==
  LET attempts == IF IsSet(S.retryMap[to]) THEN Val(S.retryMap[to]) ELSE 0
  IN IF attempts >= MAX_RETRIES
       THEN [S EXCEPT !.retryMap[to] = None]
       ELSE [S EXCEPT !.retryMap[to] = Some(attempts + 1),
                      !.retryTimers[to] = @ + 1,
                      !.scheduled[to] = Min(@ + 1, MaxRedials + 1)]

\* clearRetry(to).  retryStale notes the re-dials pending at this moment;
\* scheduled counts the re-dials scheduled since (it stops counting one
\* above MaxRedials).
clearRetry(S, to) ==
  [S EXCEPT !.retryMap[to] = None,
            !.retryStale[to] = S.retryTimers[to],
            !.scheduled[to] = 0]

\* The re-dial timer's callback: client.calls.create({ to, from, ... }).
\* The timers of one destination have one delay and expire in the order
\* in which they were armed.
retryTimerCallback(S, to) ==
  [S EXCEPT !.retryTimers[to] = @ - 1,
            !.retryStale[to] = Max(0, @ - 1),
            !.out = Append(@, Msg("carrier", 0, "calls.create", to))]

\* POST /twilio/status
twilioStatus(S, CallStatus, To) ==
  LET S1 == IF CallStatus = "busy" THEN scheduleRetry(S, To) ELSE S
  IN IF CallStatus = "completed" THEN clearRetry(S1, To) ELSE S1

\* /twiml: the call info is stored when the request has a call id and a
\* caller number; a missing called number is stored as "".
twiml(S, callSid, from, to) ==
  IF IsSet(callSid) /\ IsSet(from)
    THEN storeCallInfo(S, Val(callSid), Val(from),
                       IF IsSet(to) THEN Val(to) ELSE "")
    ELSE S

\* ---------------------------------------------------------------- state
Init ==
  /\ sessions = <<>>
  /\ sess = <<>>
  /\ tw = [w \in Conns |-> "none"]
  /\ escalationTem = "template"
  /\ pendingCallInfo = [c \in CallSids |-> None]
  /\ retryMap = [d \in Dests |-> None]
  /\ retryTimers = [d \in Dests |-> 0]
  /\ retryStale = [d \in Dests |-> 0]
  /\ scheduled = [d \in Dests |-> 0]
  /\ frontend = [f \in Observers |-> "none"]
  /\ frontendConnections = <<>>
  /\ inserts = 0
  /\ calls = <<>>
  /\ hist = <<>>
  /\ out = <<>>
  /\ lastOp = Op("init", "")
  /\ steps = 0

Objs == 1..Len(sess)
\* A socket still delivers its inbound messages until its close event.
Delivers(state) == state \in {"open", "closing"}

\* -------------------------------------------------------------- actions
\* wss.on("connection") for path /call: handleCallConnection
Connect(w) ==
  /\ tw[w] = "none"
  /\ tw' = [tw EXCEPT ![w] = "open"]
  /\ out' = <<>>
  /\ UNCHANGED <<sessions, sess, escalationTem, pendingCallInfo, retryMap,
                 retryTimers, retryStale, scheduled, frontend,
                 frontendConnections, inserts, calls, hist>>

\* The start event carries the call id, or none.
TwilioStart(w, sid, callSid) ==
  /\ Delivers(tw[w])
  /\ Len(sess) < MaxSessions
  /\ Install(handleStart(Cur, w, sid, callSid))

\* The call a stream belongs to, where a specification fixes it.
CallSidOf(sid) == Some(IF sid = "S1" THEN "C1" ELSE "C2")

TwilioMedia(w, sid, ts) ==
  /\ Delivers(tw[w])
  /\ Has(Cur, sid) => hist[Get(Cur, sid)].rx < MaxFrames
  /\ Install(handleMedia(Cur, sid, ts))

TwilioMark(w, sid, name) ==
  /\ Delivers(tw[w])
  /\ (Has(Cur, sid) /\ name = "end_call_triggered")
       => sess[Get(Cur, sid)].pend.endCall < MaxPending
  /\ (Has(Cur, sid) /\ name = "trigger_escalation")
       => sess[Get(Cur, sid)].pend.escalation < MaxPending
  /\ Install(handleMark(Cur, sid, name))

\* case "close"
TwilioCloseMsg(w, sid) ==
  /\ Delivers(tw[w])
  /\ Install(closeSession(Cur, sid))

\* ws.on("close"): the socket's close event, once per socket
TwilioWsClose(w) ==
  /\ Delivers(tw[w])
  /\ Install(cleanupByTwilio([Cur EXCEPT !.tw[w] = "closed"], w))

ModelOpen(o) ==
  /\ sess[o].modelConn = "connecting"
  /\ Install(onModelOpen(Cur, o))

\* An errored socket is on its way to its close event.
ModelError(o) ==
  /\ sess[o].modelConn \in {"connecting", "open"}
  /\ Install(closeModelConn(onModelError(Cur, o), o))

ModelClose(o) ==
  /\ Delivers(sess[o].modelConn)
  /\ Install(onModelClose(Cur, o))

ModelMessage(o, ev) ==
  /\ Delivers(sess[o].modelConn)
  /\ Persisted(ev) => inserts < MaxPending
  /\ (ev.fn # "none" /\ ~SettlesAtOnce(ev.fn)) => Len(calls) < MaxPending
  /\ (ev.type = "response.audio.delta"
        /\ ~Truthy(sess[o].responseStartTimestamp))
       => sess[o].pend.grace < MaxPending
  /\ Install(handleModelMessage(Cur, o, ev))

TimerFires(o, k, cb(_, _)) ==
  \E byHandle \in BOOLEAN :
    /\ CanExpire(sess[o], k, byHandle)
    /\ Install(cb(expire(Cur, o, k, byHandle), o))

GreetingTimer(o) == TimerFires(o, "greeting", greetingTimerCallback)
SilenceTimer(o) == TimerFires(o, "silence", silenceTimerCallback)
SpeechTimer(o) == TimerFires(o, "speech", speechTimerCallback)
GraceTimer(o) == TimerFires(o, "grace", graceTimerCallback)
EndCallTimer(o) == TimerFires(o, "endCall", endCallTimerCallback)
EscalationTimer(o) == TimerFires(o, "escalation", escalationTimerCallback)

TwilioStatus(CallStatus, To) ==
  /\ twilioStatus(Cur, CallStatus, To).retryTimers[To] <= MaxRedials
  /\ Install(twilioStatus(Cur, CallStatus, To))

RetryTimer(To) ==
  /\ retryTimers[To] > 0
  /\ Install(retryTimerCallback(Cur, To))

Twiml(callSid, from, to) == Install(twiml(Cur, callSid, from, to))

TwilioBadMessage(w, sid, kind) ==
  /\ Delivers(tw[w])
  /\ Install(handleTwilioMalformed(Cur, sid, kind))

ModelBadMessage(o, kind) ==
  /\ Delivers(sess[o].modelConn)
  /\ Install(handleModelMalformed(Cur, o, kind))

\* wss.on("connection") for path /logs
FrontendConnect(f) ==
  /\ frontend[f] = "none"
  /\ Install(handleFrontendConnection(Cur, f))

FrontendMessage(f, msg) ==
  /\ Delivers(frontend[f])
  /\ Install(handleFrontendMessage(Cur, f, msg))

FrontendUpdate(f) ==
  FrontendMessage(f, FrontendMsg("session.update", None, "u1"))

FrontendStreamSid(f, sid) ==
  FrontendMessage(f, FrontendMsg("attach", Some(sid), ""))

FrontendClose(f) ==
  /\ Delivers(frontend[f])
  /\ Install(onFrontendClose(Cur, f))

FrontendError(f) ==
  /\ frontend[f] = "open"
  /\ Install(onFrontendError(Cur, f))

\* A conversationDB.insert promise settles, fulfilled or rejected: its
\* callbacks only log.
InsertSettles(ok) ==
  /\ inserts > 0
  /\ Install([Cur EXCEPT !.inserts = @ - 1])

\* A runFunction promise settles, in any order among those in flight.
FunctionSettles(i) ==
  /\ i \in 1..Len(calls)
  /\ Install(onFunctionResult(
               [Cur EXCEPT !.calls = SubSeq(@, 1, i - 1)
                                       \o SubSeq(@, i + 1, Len(@))],
               calls[i].o, runFunction(calls[i].kind)))

\* POST /escalate
Escalate == Install(escalate(Cur))

\* What a specification records of a step: nothing, the handler that ran,
\* or the handler that ran within a budget of handler runs.
SidOf(o) == sess[o].streamSid
Quiet == UNCHANGED <<lastOp, steps>>
Ran(name, sid) == lastOp' = Op(name, sid) /\ UNCHANGED steps
RanArg(name, sid, arg) == lastOp' = OpArg(name, sid, arg) /\ UNCHANGED steps
CountedArg(name, sid, arg) ==
  steps < MaxSteps /\ steps' = steps + 1 /\ lastOp' = OpArg(name, sid, arg)
Counted(name, sid) == CountedArg(name, sid, <<>>)

\* A "close" message, or a socket close, that finds no Session to clean up
\* is recorded as such.
CloseName(sid) == IF Has(Cur, sid) THEN "close" ELSE "close.noop"
WsCloseName(w) ==
  IF \E i \in 1..Len(sessions) : sess[sessions[i].o].twilioConn = w
    THEN "wsclose" ELSE "wsclose.noop"

\* Several calls: start events on the telephony sockets, their ai_done
\* marks, their AI-backend sockets, their timers, and their teardown.
Next ==
  \/ \E w \in Conns : Connect(w) /\ Quiet
  \/ \E w \in Conns, sid \in StreamSids :
        TwilioStart(w, sid, CallSidOf(sid)) /\ Quiet
  \/ \E w \in Conns, sid \in StreamSids :
        TwilioMark(w, sid, "ai_done") /\ Quiet
  \/ \E w \in Conns, sid \in StreamSids : TwilioCloseMsg(w, sid) /\ Quiet
  \/ \E w \in Conns : TwilioWsClose(w) /\ Quiet
  \/ \E o \in Objs : ModelOpen(o) /\ Quiet
  \/ \E o \in Objs : ModelClose(o) /\ Quiet
  \/ \E o \in Objs : GreetingTimer(o) /\ Quiet
  \/ \E o \in Objs : SilenceTimer(o) /\ Quiet

Spec == Init /\ [][Next]_vars

\* One call's lifecycle, with the handler of each step recorded.
NextCall ==
  \/ Connect("w1") /\ Ran("connect", "")
  \/ sess = <<>> /\ TwilioStart("w1", "S1", CallSidOf("S1"))
        /\ Ran("start", "S1")
  \/ \E name \in MarkNames :
        TwilioMark("w1", "S1", name) /\ Ran("mark", "S1")
  \/ TwilioCloseMsg("w1", "S1") /\ Ran(CloseName("S1"), "S1")
  \/ TwilioWsClose("w1") /\ Ran(WsCloseName("w1"), "")
  \/ \E o \in Objs : ModelOpen(o) /\ Ran("model.open", SidOf(o))
  \/ \E o \in Objs : ModelError(o) /\ Ran("model.error", SidOf(o))
  \/ \E o \in Objs : ModelClose(o) /\ Ran("model.close", SidOf(o))
  \/ \E o \in Objs : GreetingTimer(o) /\ Ran("greetingTimer", SidOf(o))
  \/ \E o \in Objs : SilenceTimer(o) /\ Ran("silenceTimer", SidOf(o))
  \/ \E o \in Objs : EndCallTimer(o) /\ Ran("endCallTimer", SidOf(o))
  \/ \E o \in Objs : EscalationTimer(o) /\ Ran("escalationTimer", SidOf(o))

SpecCall == Init /\ [][NextCall]_vars

\* One call's conversation: media frames in, assistant audio out, caller
\* speech events, the ai_done mark, and the settle and grace timers of
\* turn-taking (no silence window runs out during the conversation).
TurnEvents ==
  {ev \in ModelEvents :
     ev.type \in {"input_audio_buffer.speech_started",
                  "input_audio_buffer.speech_stopped",
                  "response.audio.delta", "response.audio.done"}}

NextTurn ==
  \/ Connect("w1") /\ Quiet
  \/ sess = <<>> /\ TwilioStart("w1", "S1", CallSidOf("S1")) /\ Quiet
  \/ \E ts \in Timestamps : TwilioMedia("w1", "S1", ts) /\ Quiet
  \/ TwilioMark("w1", "S1", "ai_done") /\ Quiet
  \/ \E o \in Objs : ModelOpen(o) /\ Quiet
  \/ \E o \in Objs, ev \in TurnEvents : ModelMessage(o, ev) /\ Quiet
  \/ \E o \in Objs : SpeechTimer(o) /\ Quiet
  \/ \E o \in Objs : GraceTimer(o) /\ Quiet

SpecTurn == Init /\ [][NextTurn]_vars

\* What is recorded of an AI-backend event: its transcript, or the message
\* of its error.
EvArg(ev) == IF ev.tooMany THEN <<"Too Many Requests">> ELSE ev.text

\* Every handler of one telephony socket and stream id, within MaxSteps
\* handler runs, with the handler of each step recorded.
NextAll ==
  \/ Connect("w1") /\ Counted("connect", "")
  \/ TwilioStart("w1", "S1", CallSidOf("S1")) /\ Counted("start", "S1")
  \/ \E ts \in Timestamps :
        TwilioMedia("w1", "S1", ts) /\ Counted("media", "S1")
  \/ \E name \in MarkNames :
        TwilioMark("w1", "S1", name) /\ CountedArg("mark", "S1", <<name>>)
  \/ TwilioCloseMsg("w1", "S1") /\ Counted(CloseName("S1"), "S1")
  \/ TwilioWsClose("w1") /\ Counted(WsCloseName("w1"), "")
  \/ \E o \in Objs : ModelOpen(o) /\ Counted("model.open", SidOf(o))
  \/ \E o \in Objs : ModelError(o) /\ Counted("model.error", SidOf(o))
  \/ \E o \in Objs : ModelClose(o) /\ Counted("model.close", SidOf(o))
  \/ \E o \in Objs, ev \in ModelEvents :
        ModelMessage(o, ev) /\ CountedArg(ev.type, SidOf(o), EvArg(ev))
  \/ \E o \in Objs : GreetingTimer(o) /\ Counted("greetingTimer", SidOf(o))
  \/ \E o \in Objs : SilenceTimer(o) /\ Counted("silenceTimer", SidOf(o))
  \/ \E o \in Objs : SpeechTimer(o) /\ Counted("speechTimer", SidOf(o))
  \/ \E o \in Objs : GraceTimer(o) /\ Counted("graceTimer", SidOf(o))
  \/ \E o \in Objs : EndCallTimer(o) /\ Counted("endCallTimer", SidOf(o))
  \/ \E o \in Objs :
        EscalationTimer(o) /\ Counted("escalationTimer", SidOf(o))

SpecAll == Init /\ [][NextAll]_vars

\* One call's turn-taking with the handler of each step recorded: the
\* AI backend's events (assistant audio, transcripts, caller speech), media
\* frames, the echoed ai_done mark, and the settle and grace timers.
TalkEvents ==
  {ev \in ModelEvents :
     ev.type # "conversation.item.input_audio_transcription.failed"}

NextTalk ==
  \/ Connect("w1") /\ Ran("connect", "")
  \/ sess = <<>> /\ TwilioStart("w1", "S1", CallSidOf("S1"))
        /\ Ran("start", "S1")
  \/ \E ts \in Timestamps :
        TwilioMedia("w1", "S1", ts) /\ Ran("media", "S1")
  \/ TwilioMark("w1", "S1", "ai_done") /\ RanArg("mark", "S1", <<"ai_done">>)
  \/ \E o \in Objs : ModelOpen(o) /\ Ran("model.open", SidOf(o))
  \/ \E o \in Objs, ev \in TalkEvents :
        ModelMessage(o, ev) /\ RanArg(ev.type, SidOf(o), ev.text)
  \/ \E o \in Objs : SpeechTimer(o) /\ Ran("speechTimer", SidOf(o))
  \/ \E o \in Objs : GraceTimer(o) /\ Ran("graceTimer", SidOf(o))

SpecTalk == Init /\ [][NextTalk]_vars

\* The retry scheduler: status callbacks for the destinations and the
\* expiries of the re-dial timers.
NextRetry ==
  \/ \E st \in CallStatuses, d \in Dests :
        TwilioStatus(st, d) /\ RanArg("status", "", <<st, d>>)
  \/ \E d \in Dests : RetryTimer(d) /\ RanArg("redial", "", <<d>>)

SpecRetry == Init /\ [][NextRetry]_vars

\* Call info and stream starts in either order: the /twiml webhook, start
\* events with or without a call id, and the teardown of the Sessions.
OptCallSids == {None} \cup {Some(c) : c \in CallSids}
OptFrom == {None} \cup {Some(n) : n \in FromPhones}
OptTo == {None} \cup {Some(n) : n \in ToPhones}

NextInfo ==
  \/ Connect("w1") /\ Ran("connect", "")
  \/ \E c \in OptCallSids, from \in OptFrom, to \in OptTo :
        Twiml(c, from, to) /\ RanArg("twiml", "", c)
  \/ \E sid \in StreamSids, c \in OptCallSids :
        TwilioStart("w1", sid, c) /\ RanArg("start", sid, c)
  \/ \E sid \in StreamSids :
        TwilioCloseMsg("w1", sid) /\ Ran(CloseName(sid), sid)
  \/ TwilioWsClose("w1") /\ Ran(WsCloseName("w1"), "")

SpecInfo == Init /\ [][NextInfo]_vars

\* The observer hub and the AI backend's events of one call: observers
\* come and go, the call's events (transcripts without and with a
\* sentinel, the two persisted kinds, function calls) and malformed
\* payloads arrive, and the promises of inserts and function calls settle.
HubEvents ==
  {Ev("response.output_item.done", 0, tx, FALSE) :
     tx \in {<<"hello">>, <<"ok", "/////">>}}
  \cup {Ev("response.content_part.done", 0, tx, FALSE) :
          tx \in {<<>>, <<"hello">>}}
  \cup {Ev("conversation.item.input_audio_transcription.delta", 0,
           <<"hi">>, FALSE)}
  \cup {FnEv(kind) : kind \in FnKinds}

HubArg(ev) == IF ev.fn # "none" THEN <<ev.fn>> ELSE ev.text

NextHub ==
  \/ Connect("w1") /\ Ran("connect", "")
  \/ \E to \in OptTo :
        Twiml(Some("C1"), Some("+1555"), to) /\ Ran("twiml", "")
  \/ sess = <<>> /\ TwilioStart("w1", "S1", Some("C1"))
        /\ Ran("start", "S1")
  \/ TwilioWsClose("w1") /\ Ran(WsCloseName("w1"), "")
  \/ \E kind \in TwilioMalformed :
        TwilioBadMessage("w1", "S1", kind)
          /\ RanArg("twilio.malformed", "S1", <<kind>>)
  \/ \E o \in Objs : ModelOpen(o) /\ Ran("model.open", SidOf(o))
  \/ \E o \in Objs : ModelClose(o) /\ Ran("model.close", SidOf(o))
  \/ \E o \in Objs, ev \in HubEvents :
        ModelMessage(o, ev) /\ RanArg(ev.type, SidOf(o), HubArg(ev))
  \/ \E o \in Objs, kind \in ModelMalformed :
        ModelBadMessage(o, kind)
          /\ RanArg("model.malformed", SidOf(o), <<kind>>)
  \/ \E f \in Observers :
        FrontendConnect(f) /\ RanArg("frontend.connect", "", <<f>>)
  \/ \E f \in Observers :
        FrontendUpdate(f) /\ RanArg("frontend.update", "", <<f>>)
  \/ \E f \in Observers :
        FrontendStreamSid(f, "S1") /\ RanArg("frontend.streamSid", "S1", <<f>>)
  \/ \E f \in Observers :
        FrontendClose(f) /\ RanArg("frontend.close", "", <<f>>)
  \/ \E f \in Observers :
        FrontendError(f) /\ RanArg("frontend.error", "", <<f>>)
  \/ \E ok \in BOOLEAN :
        InsertSettles(ok) /\ RanArg("insert.settled", "", <<ok>>)
  \/ \E i \in 1..Len(calls) :
        FunctionSettles(i)
          /\ RanArg("function.settled", SidOf(calls[i].o), <<calls[i].kind>>)

SpecHub == Init /\ [][NextHub]_vars

\* Two calls, each on its own telephony socket, and the webhook that
\* serves the hand-off body: either call may end by an error of its AI
\* socket or by the caller's silence.
NextIso ==
  \/ \E w \in Conns : Connect(w) /\ Ran("connect", "")
  \/ \E sid \in StreamSids :
        /\ \A o \in Objs : SidOf(o) # sid
        /\ TwilioStart(IF sid = "S1" THEN "w1" ELSE "w2", sid, CallSidOf(sid))
        /\ Ran("start", sid)
  \/ \E sid \in StreamSids :
        TwilioMark(IF sid = "S1" THEN "w1" ELSE "w2", sid, "ai_done")
          /\ RanArg("mark", sid, <<"ai_done">>)
  \/ \E w \in Conns : TwilioWsClose(w) /\ Ran(WsCloseName(w), "")
  \/ \E o \in Objs : ModelOpen(o) /\ Ran("model.open", SidOf(o))
  \/ \E o \in Objs : ModelError(o) /\ Ran("model.error", SidOf(o))
  \/ \E o \in Objs : SilenceTimer(o) /\ Ran("silenceTimer", SidOf(o))
  \/ \E o \in Objs :
        /\ tw[sess[o].twilioConn] \in {"closing", "closed"}
        /\ Escalate
        /\ Ran("escalate", SidOf(o))

SpecIso == Init /\ [][NextIso]_vars

\* Observers and two calls, each call on its own telephony socket: the
\* observers' messages (session.update without and with a stream id, a
\* message that attaches the observer to a stream, a message without
\* either), and the opening and closing of the calls' sockets.
FrontendMsgs ==
  {FrontendMsg("session.update", None, b) : b \in {"u1", "u2"}}
  \cup {FrontendMsg("session.update", Some("S1"), "u1")}
  \cup {FrontendMsg("attach", Some(sid), "") : sid \in StreamSids}
  \cup {FrontendMsg("attach", None, "")}

WsOf(sid) == IF sid = "S1" THEN "w1" ELSE "w2"

NextFan ==
  \/ \E w \in Conns : Connect(w) /\ Ran("connect", "")
  \/ \E sid \in StreamSids :
        /\ \A o \in Objs : SidOf(o) # sid
        /\ TwilioStart(WsOf(sid), sid, CallSidOf(sid))
        /\ Ran("start", sid)
  \/ \E w \in Conns : TwilioWsClose(w) /\ Ran(WsCloseName(w), "")
  \/ \E o \in Objs : ModelOpen(o) /\ Ran("model.open", SidOf(o))
  \/ \E o \in Objs : ModelClose(o) /\ Ran("model.close", SidOf(o))
  \/ \E f \in Observers :
        FrontendConnect(f) /\ RanArg("frontend.connect", "", <<f>>)
  \/ \E f \in Observers, msg \in FrontendMsgs :
        FrontendMessage(f, msg) /\ RanArg("frontend.message", "", <<f, msg>>)
  \/ \E f \in Observers :
        FrontendClose(f) /\ RanArg("frontend.close", "", <<f>>)

SpecFan == Init /\ [][NextFan]_vars

\* One call's silence handling with the handler of each step recorded:
\* the echoed ai_done mark, the silence and settle timers, caller speech,
\* and an assistant turn's audio.
QuietEvents ==
  {ev \in ModelEvents :
     \/ ev.type \in {"input_audio_buffer.speech_started",
                     "input_audio_buffer.speech_stopped",
                     "response.audio.done"}
     \/ ev.type = "response.audio.delta" /\ ev.item_id = 1}

NextQuiet ==
  \/ Connect("w1") /\ Ran("connect", "")
  \/ sess = <<>> /\ TwilioStart("w1", "S1", CallSidOf("S1"))
        /\ Ran("start", "S1")
  \/ TwilioMark("w1", "S1", "ai_done") /\ RanArg("mark", "S1", <<"ai_done">>)
  \/ \E o \in Objs : ModelOpen(o) /\ Ran("model.open", SidOf(o))
  \/ \E o \in Objs, ev \in QuietEvents :
        ModelMessage(o, ev) /\ Ran(ev.type, SidOf(o))
  \/ \E o \in Objs : SilenceTimer(o) /\ Ran("silenceTimer", SidOf(o))
  \/ \E o \in Objs : SpeechTimer(o) /\ Ran("speechTimer", SidOf(o))
  \/ \E o \in Objs : GraceTimer(o) /\ Ran("graceTimer", SidOf(o))

SpecQuiet == Init /\ [][NextQuiet]_vars

\* One call's escalation by sentinel: the transcript with the sentinel,
\* the echoed trigger_escalation mark and its deferred action, and a
\* barge-in (assistant audio, caller speech, the settle timer).  Telephony
\* echoes the mark that the last handler run sent.  A timer
\* that is pending expires: the deferred action and the settle timer are
\* taken under weak fairness.
EscEvents ==
  {ev \in ModelEvents :
     \/ ev.type = "input_audio_buffer.speech_started"
     \/ ev.type = "response.audio.delta" /\ ev.item_id = 1
     \/ ev.type = "response.output_item.done" /\ ev.text = <<"ok", "/////">>}

EscalationStep ==
  \E o \in Objs : EscalationTimer(o) /\ Ran("escalationTimer", SidOf(o))

SettleStep ==
  \E o \in Objs : SpeechTimer(o) /\ Ran("speechTimer", SidOf(o))

NextEsc ==
  \/ Connect("w1") /\ Ran("connect", "")
  \/ sess = <<>> /\ TwilioStart("w1", "S1", CallSidOf("S1"))
        /\ Ran("start", "S1")
  \/ /\ \E i \in 1..Len(out) :
          out[i].type = "mark" /\ out[i].arg = "trigger_escalation"
     /\ TwilioMark("w1", "S1", "trigger_escalation")
     /\ RanArg("mark", "S1", <<"trigger_escalation">>)
  \/ \E o \in Objs : ModelOpen(o) /\ Ran("model.open", SidOf(o))
  \/ \E o \in Objs, ev \in EscEvents :
        ModelMessage(o, ev) /\ RanArg(ev.type, SidOf(o), ev.text)
  \/ SettleStep
  \/ EscalationStep

SpecEsc ==
  Init /\ [][NextEsc]_vars /\ WF_vars(EscalationStep) /\ WF_vars(SettleStep)

\* ================================================================ claims
KeySet == {sessions[i].sid : i \in 1..Len(sessions)}
Registered(o) == \E i \in 1..Len(sessions) : sessions[i].o = o
Count(seq, x) == Cardinality({i \in 1..Len(seq) : seq[i] = x})
EndedCount(o) == Count(hist[o].notices, "call.ended")
Truncates == {i \in 1..Len(out) : out[i].type = "truncate"}

\* C1: session cleanup is idempotent.  Each Session has at most one
\* call.ended notice and, once it has it, no registry entry; and a cleanup
\* invoked when the stream id has no entry (a second "close" message, or
\* the socket's close event after the cleanup) changes nothing but the
\* state of the socket that closed.
C1_CleanupIdempotent ==
  /\ [](\A o \in Objs : /\ EndedCount(o) <= 1
                         /\ EndedCount(o) = 1 => ~Registered(o))
  /\ [][lastOp'.name \in {"close.noop", "wsclose.noop"}
         => /\ UNCHANGED <<sessions, sess, escalationTem, hist>>
            /\ out' = <<>>
            /\ \A w \in Conns : tw'[w] # tw[w] =>
                  lastOp'.name = "wsclose.noop" /\ tw'[w] = "closed"]_vars

\* A second closeSession for a stream id whose Session was already cleaned up.
C1_Witness ==
  /\ lastOp = Op("close.noop", "S1")
  /\ \E o \in Objs : sess[o].streamSid = "S1" /\ EndedCount(o) = 1

\* C2: the close of either connection of a Session ends the Session.  Once
\* the AI-backend socket has closed, the telephony socket is no longer
\* open; once the telephony socket has closed, the AI-backend socket is no
\* longer open and the registry entry is gone.
C2_EitherCloseEndsSession ==
  \A o \in Objs :
    /\ sess[o].modelConn = "closed" => tw[sess[o].twilioConn] # "open"
    /\ tw[sess[o].twilioConn] = "closed"
         => ~Registered(o) /\ sess[o].modelConn \notin {"connecting", "open"}

\* C3: once closeSession has removed a Session, none of its timers is
\* pending.
C3_CleanupCancelsTimers ==
  \A o \in Objs :
    EndedCount(o) >= 1 =>
      \A k \in DOMAIN sess[o].pend : sess[o].pend[k] = 0

\* C4: a start event for a stream id that has a live entry creates no
\* Session: two Sessions have the same stream id only if the earlier one
\* was cleaned up (it is never cleaned up once it has lost its entry).
C4_NoSessionForDuplicateStart ==
  \A o1, o2 \in Objs :
    (o1 < o2 /\ sess[o1].streamSid = sess[o2].streamSid)
      => EndedCount(o1) >= 1

C6_StartAndItemSetTogether ==
  [][\A o \in Objs :
       /\ IsSet(sess'[o].responseStartTimestamp)
            <=> IsSet(sess'[o].lastAssistantItemId)
       /\ (sess[o].isAiSpeaking /\ ~sess'[o].isAiSpeaking)
            => /\ ~IsSet(sess'[o].responseStartTimestamp)
               /\ ~IsSet(sess'[o].lastAssistantItemId)]_vars

\* C7: a truncate instruction computed from responseStartTimestamp t0 and
\* latestMediaTimestamp t1 carries t1 - t0 when t1 >= t0 and 0 otherwise.
C7_TruncateElapsedClamped ==
  \A i \in Truncates :
    /\ out[i].arg.audio_end_ms >= 0
    /\ out[i].arg.audio_end_ms =
         IF out[i].arg.t1 >= out[i].arg.t0
           THEN out[i].arg.t1 - out[i].arg.t0
           ELSE 0

\* A truncate issued after the clock went back behind the turn's start.
C7_Witness ==
  \E i \in Truncates :
    out[i].arg.t1 < out[i].arg.t0 /\ out[i].arg.audio_end_ms = 0

\* C8: a truncate instruction carries the local clock at the barge-in minus
\* the local clock at the first audio frame of the interrupted turn.
C8_TruncateFromTurnStart ==
  \A i \in Truncates :
    LET h == hist[out[i].o]
    IN (IsSet(h.turnT0) /\ out[i].arg.t1 >= Val(h.turnT0))
         => out[i].arg.audio_end_ms = out[i].arg.t1 - Val(h.turnT0)

\* C9: the frames forwarded to the AI backend are in arrival order, each at
\* most once.
C9_FramesForwardedInOrder ==
  \A o \in Objs :
    LET f == hist[o].fwd
    IN /\ \A i \in 1..Len(f) : f[i] \in 1..hist[o].rx
       /\ \A i, j \in 1..Len(f) : i < j => f[i] < f[j]

\* Two frames received and both forwarded.
C9_Witness == \E o \in Objs : hist[o].rx >= 2 /\ Len(hist[o].fwd) >= 2

\* C10: latestMediaTimestamp never decreases.
C10_ClockMonotonic ==
  [][\A o \in Objs :
       sess'[o].latestMediaTimestamp >= sess[o].latestMediaTimestamp]_vars

\* Messages of the last handler run of a given type.
Sent(type) == {i \in 1..Len(out) : out[i].type = type}
SentNext(type) == {i \in 1..Len(out') : out'[i].type = type}

\* C11: barge-in suppression.  When the settle timer expires and the last
\* caller-speech event received was speech_stopped (the speech_started that
\* armed the timer was followed by speech_stopped and by no further
\* speech_started), its callback sends no truncate and no telephony clear.
C11_SettledSpeechDoesNotInterrupt ==
  [][\A o \in Objs :
       (lastOp'.name = "speechTimer" /\ hist[o].lastSpeech = "stopped")
         => SentNext("truncate") = {} /\ SentNext("clear") = {}]_vars

\* The settle timer expired after speech_stopped while every other
\* condition of an interruption held: an assistant item and its start are
\* recorded, barge-in is available and both sockets are open.
C11_Witness ==
  /\ lastOp.name = "speechTimer"
  /\ \E o \in Objs :
       /\ hist[o].lastSpeech = "stopped"
       /\ IsSet(sess[o].lastAssistantItemId)
       /\ IsSet(sess[o].responseStartTimestamp)
       /\ sess[o].isBargeInAvailable
       /\ sess[o].modelConn = "open"
       /\ tw[sess[o].twilioConn] = "open"
       /\ out = <<>>

\* C12: no truncate instruction is issued before the barge-in grace window
\* has elapsed: when a truncate is sent for a Session, a grace timer of
\* that Session has expired.
C12_NoTruncateBeforeGrace ==
  \A i \in Truncates : hist[out[i].o].graceFired

\* C13: the silence timer is not armed by response.audio.done; it is
\* armed only by the handler of the echoed ai_done mark.
C13_SilenceArmedOnlyByEcho ==
  [][\A o \in Objs :
       /\ lastOp'.name = "response.audio.done"
            => /\ sess'[o].handle.silence = sess[o].handle.silence
               /\ sess'[o].pend.silence = sess[o].pend.silence
       /\ (\/ sess'[o].pend.silence > sess[o].pend.silence
           \/ /\ sess'[o].handle.silence = "live"
              /\ sess[o].handle.silence # "live")
            => lastOp' = OpArg("mark", SidOf(o), <<"ai_done">>)]_vars

\* response.audio.done has requested the ai_done mark and no silence timer
\* is armed.
C13_Witness ==
  /\ lastOp.name = "response.audio.done"
  /\ \E o \in Objs :
       /\ \E i \in Sent("mark") : out[i].o = o /\ out[i].arg = "ai_done"
       /\ sess[o].handle.silence = "undef"
       /\ sess[o].pend.silence = 0

\* C14: silence escalation.  With no caller or assistant activity, the
\* expiry of the silence timer of a live Session (registered, both of its
\* sockets open) in caller state idle moves it to silence and injects
\* exactly one <<Silence>> prompt into the AI conversation without ending
\* the call; the expiry in caller state silence injects nothing and
\* terminates the call; and a prompt is injected at the idle -> silence
\* edge only.
C14_SilenceEscalation ==
  [][\A o \in Objs :
       /\ (/\ lastOp'.name = "silenceTimer"
           /\ sess'[o].pend.silence < sess[o].pend.silence
           /\ Registered(o)
           /\ tw[sess[o].twilioConn] = "open"
           /\ sess[o].modelConn = "open"
           /\ ~sess[o].isAiSpeaking)
            => /\ sess[o].callerState = "idle"
                    => /\ sess'[o].callerState = "silence"
                       /\ Cardinality(SentNext("silence")) = 1
                       /\ tw'[sess[o].twilioConn] = "open"
               /\ sess[o].callerState = "silence"
                    => /\ SentNext("silence") = {}
                       /\ tw'[sess[o].twilioConn] # "open"
                       /\ sess'[o].modelConn \notin {"connecting", "open"}
       /\ (\E i \in SentNext("silence") : out'[i].o = o)
            => sess[o].callerState = "idle" /\ sess'[o].callerState = "silence"
    ]_vars

\* The second expiry: the silence timer ran out in caller state silence
\* and the call was terminated with the no-activity farewell.
C14_Witness ==
  /\ lastOp.name = "silenceTimer"
  /\ escalationTem = "silence_bye"
  /\ \E o \in Objs :
       /\ sess[o].callerState = "silence"
       /\ sess[o].modelConn = "closing"
       /\ tw[sess[o].twilioConn] = "closing"
       /\ \E i \in Sent("clear") : out[i].o = o

\* Marks of a given name that the last handler run requested of telephony.
MarksNext(name) == {i \in SentNext("mark") : out'[i].arg = name}

\* C15: the escalation sentinel.  A completed transcript of a call whose
\* telephony socket is open requests the trigger_escalation mark exactly
\* once if it contains the sentinel anywhere and not at all otherwise, and
\* in neither case arms or runs an escalation itself; an escalation timer
\* is armed only by the echoed trigger_escalation mark, one per echo; and
\* a Session is escalated only by an escalation timer or by a failure of
\* the AI backend.
C15_EscalationSentinel ==
  [][\A o \in Objs :
       /\ (/\ lastOp'.name = "response.output_item.done"
           /\ lastOp'.arg # <<>>
           /\ tw[sess[o].twilioConn] = "open")
            => /\ Cardinality(MarksNext("trigger_escalation")) =
                    (IF Includes(lastOp'.arg, "/////") THEN 1 ELSE 0)
               /\ sess'[o].pend.escalation = sess[o].pend.escalation
               /\ sess'[o].escalationTriggered = sess[o].escalationTriggered
               /\ tw' = tw
       /\ sess'[o].pend.escalation > sess[o].pend.escalation
            => /\ lastOp' = OpArg("mark", SidOf(o), <<"trigger_escalation">>)
               /\ sess'[o].pend.escalation = sess[o].pend.escalation + 1
       /\ (~sess[o].escalationTriggered /\ sess'[o].escalationTriggered)
            => lastOp'.name \in
                 {"escalationTimer", "model.error",
                  "conversation.item.input_audio_transcription.failed"}
    ]_vars

\* A transcript with the sentinel after other text has requested the mark.
C15_Witness ==
  /\ lastOp.name = "response.output_item.done"
  /\ lastOp.arg = <<"ok", "/////">>
  /\ \E i \in Sent("mark") : out[i].arg = "trigger_escalation"

\* C16: a transcript with the end-call sentinel that is processed while
\* the caller state is speaking requests no end_call_triggered mark.
C16_NoEndCallWhileSpeaking ==
  [][\A o \in Objs :
       (/\ lastOp'.name = "response.output_item.done"
        /\ Includes(lastOp'.arg, "/?/")
        /\ sess[o].callerState = "speaking")
         => MarksNext("end_call_triggered") = {}]_vars

\* The retry counter of a destination, 0 when it has none.
Attempts(d) == IF IsSet(retryMap[d]) THEN Val(retryMap[d]) ELSE 0

\* C17: the retry scheduler.  A busy signal for a destination whose
\* counter is below three (none counts as zero) adds one to the counter and
\* schedules exactly one delayed re-dial; a busy signal at counter three
\* schedules none and removes the counter; a completed signal removes the
\* counter; the counter, when there is one, is 1, 2 or 3.
C17_RetrySchedule ==
  [][\A d \in Dests :
       /\ lastOp' = OpArg("status", "", <<"busy", d>>)
            => IF Attempts(d) < 3
                 THEN /\ retryMap'[d] = Some(Attempts(d) + 1)
                      /\ retryTimers'[d] = retryTimers[d] + 1
                 ELSE /\ retryMap'[d] = None
                      /\ retryTimers'[d] = retryTimers[d]
       /\ lastOp' = OpArg("status", "", <<"completed", d>>)
            => retryMap'[d] = None /\ retryTimers'[d] = retryTimers[d]
       /\ IsSet(retryMap'[d]) => Val(retryMap'[d]) \in 1..3]_vars

\* The fourth consecutive busy signal: three re-dials are pending, none was
\* added, and the counter is gone.
C17_Witness ==
  /\ lastOp = OpArg("status", "", <<"busy", "D1">>)
  /\ retryMap["D1"] = None
  /\ retryTimers["D1"] = 3
  /\ retryStale["D1"] = 0

\* C18: no re-dial that was scheduled for a destination before its
\* completed signal is placed after that signal.
C18_NoRedialAfterCompleted ==
  [][\A d \in Dests :
       lastOp' = OpArg("redial", "", <<d>>) => retryStale[d] = 0]_vars

\* C19: call info that arrives after the stream has started is joined to
\* the Session: a registered Session with call id c has its phone numbers
\* whenever info for c has been stored and not handed to another Session.
C19_LateCallInfoJoined ==
  \A o \in Objs, c \in CallSids :
    (Registered(o) /\ sess[o].callSid = Some(c) /\ IsSet(pendingCallInfo[c]))
      => IsSet(sess[o].fromPhoneNumber) /\ IsSet(sess[o].toPhoneNumber)

\* C20: every pending call-info entry is consumed exactly once.  The start
\* event with call id c that finds an entry for c gives it to the Session
\* it creates and deletes it in the same step, and no entry for c remains
\* in the map once a Session with call id c has been created.
C20_CallInfoTakenOnce ==
  /\ [][\A c \in CallSids :
          (lastOp'.name = "start" /\ lastOp'.arg = Some(c)
             /\ IsSet(pendingCallInfo[c]))
            => /\ pendingCallInfo'[c] = None
               /\ sess'[Len(sess')].fromPhoneNumber =
                    Some(Val(pendingCallInfo[c]).from)]_vars
  /\ [](\A c \in CallSids :
          IsSet(pendingCallInfo[c])
            => \A o \in Objs : sess[o].callSid # Some(c))

\* C27: on the echoed ai_done mark, a Session in caller state speaking goes
\* to idle and gets no silence timer; in any other caller state its silence
\* timer is armed.
C27_EchoInSpeakingArmsNothing ==
  [][\A o \in Objs :
       (lastOp' = OpArg("mark", SidOf(o), <<"ai_done">>) /\ Registered(o))
         => IF sess[o].callerState = "speaking"
              THEN /\ sess'[o].callerState = "idle"
                   /\ sess'[o].handle.silence # "live"
                   /\ sess'[o].pend.silence = 0
              ELSE sess'[o].handle.silence = "live"]_vars

\* C28: a Session has at most one pending silence timer, at most one
\* pending speech-settle timer and at most one pending greeting timer, and
\* a pending one is the one its handle names (no superseded timer is left
\* to fire).
C28_OnePendingTimerPerKind ==
  \A o \in Objs :
    \A k \in {"silence", "speech", "greeting"} :
      /\ sess[o].pend[k] <= 1
      /\ sess[o].pend[k] = 1 <=> sess[o].handle[k] = "live"

\* The ai_done mark re-armed the silence timer over a pending one.
C28_Witness ==
  /\ lastOp.name = "mark"
  /\ lastOp.arg = <<"ai_done">>
  /\ \E o \in Objs :
       /\ \E i \in Sent("clearTimeout") : out[i].o = o /\ out[i].arg = "silence"
       /\ sess[o].handle.silence = "live"
       /\ sess[o].pend.silence = 1

\* C29: when the greeting timer of a Session with an open AI socket
\* expires, a <<Greeting>> turn is sent if and only if the Session has
\* received no speech_started event and no assistant audio frame.
C29_GreetingIffNoSpeech ==
  [][\A o \in Objs :
       (/\ lastOp' = Op("greetingTimer", SidOf(o))
        /\ sess'[o].pend.greeting < sess[o].pend.greeting
        /\ sess[o].modelConn = "open")
         => ((\E i \in SentNext("greeting") : out'[i].o = o)
               <=> (/\ hist[o].lastSpeech = "none"
                    /\ ~sess[o].hasAssistantSpoken))]_vars

\* C30: confirmed barge-in.  When the settle timer of a Session with both
\* sockets open expires while caller speech is ongoing and an assistant
\* item and its start are recorded, the greeting and silence timers are
\* cancelled, exactly one truncate goes to the AI backend and one clear to
\* telephony, the caller state is speaking, and lastAssistantItemId and
\* responseStartTimestamp are unset.
C30_ConfirmedBargeIn ==
  [][\A o \in Objs :
       (/\ lastOp' = Op("speechTimer", SidOf(o))
        /\ hist[o].lastSpeech = "started"
        /\ IsSet(sess[o].lastAssistantItemId)
        /\ IsSet(sess[o].responseStartTimestamp)
        /\ sess[o].modelConn = "open"
        /\ tw[sess[o].twilioConn] = "open")
         => /\ sess'[o].pend.greeting = 0 /\ sess'[o].pend.silence = 0
            /\ sess'[o].handle.greeting = "undef"
            /\ sess'[o].handle.silence = "undef"
            /\ Cardinality(SentNext("truncate")) = 1
            /\ Cardinality(SentNext("clear")) = 1
            /\ \A i \in SentNext("truncate") :
                  out'[i].arg.item_id = Val(sess[o].lastAssistantItemId)
            /\ sess'[o].callerState = "speaking"
            /\ ~IsSet(sess'[o].lastAssistantItemId)
            /\ ~IsSet(sess'[o].responseStartTimestamp)]_vars

\* A barge-in that cancelled a pending silence timer and the pending
\* greeting timer.
C30_Witness ==
  /\ lastOp.name = "speechTimer"
  /\ Truncates # {}
  /\ {out[i].arg : i \in Sent("clearTimeout")} = {"silence", "greeting"}
  /\ \E o \in Objs : sess[o].callerState = "speaking"

\* C24: a failure of the AI backend forces escalation.  An error event on
\* the AI socket, or a transcription-failed event with "Too Many Requests",
\* sets isModelErr on its Session; a Session with isModelErr has been
\* escalated and neither of its sockets is open; and the close event of
\* its telephony socket removes it from the registry.
C24_BackendFailureEscalates ==
  /\ [](\A o \in Objs :
          sess[o].isModelErr
            => /\ sess[o].escalationTriggered
               /\ tw[sess[o].twilioConn] # "open"
               /\ sess[o].modelConn \notin {"connecting", "open"})
  /\ [][/\ (\/ lastOp'.name = "model.error"
            \/ /\ lastOp'.name =
                    "conversation.item.input_audio_transcription.failed"
               /\ lastOp'.arg = <<"Too Many Requests">>)
           => \E o \in Objs : SidOf(o) = lastOp'.sid /\ sess'[o].isModelErr
        /\ lastOp'.name = "wsclose"
           => \A o \in Objs :
                (sess[o].isModelErr /\ tw[sess[o].twilioConn] # "closed"
                   /\ tw'[sess[o].twilioConn] = "closed")
                  => ~(\E i \in 1..Len(sessions') : sessions'[i].o = o)]_vars

\* The telephony close event removed a Session escalated for a rate-limit
\* signal.
C24_Witness ==
  /\ lastOp.name = "wsclose"
  /\ escalationTem = "unavailable"
  /\ \E o \in Objs :
       /\ sess[o].isModelErr
       /\ sess[o].modelConn = "closing"
       /\ sess[o].handle.greeting # "undef"
       /\ ~Registered(o)
       /\ EndedCount(o) = 1

\* The observers that are in the hub's set and open.
OpenObservers ==
  {f \in Observers :
     /\ frontend[f] = "open"
     /\ \E i \in 1..Len(frontendConnections) : frontendConnections[i] = f}

\* The next state's outputs have the event of Session o, with its numbers
\* and call id where known, for observer f.
PushedNext(o, type, f) ==
  \E i \in 1..Len(out') :
    out'[i] = Msg("frontend", o, type,
                  [conn |-> f, info |-> PhoneInfo(sess[o])])

HubEventTypes == {ev.type : ev \in HubEvents}

\* C21: every AI-backend event a Session receives, a transcript with the
\* escalation sentinel included, is sent with the Session's numbers and
\* call id where known to every observer that is open, and the observers
\* left in the set are the open ones.
C21_EveryEventBroadcast ==
  [][\A o \in Objs :
       (lastOp'.name \in HubEventTypes /\ lastOp'.sid = SidOf(o))
         => /\ \A f \in OpenObservers : PushedNext(o, lastOp'.name, f)
            /\ \A i \in 1..Len(frontendConnections') :
                 frontend[frontendConnections'[i]] = "open"]_vars

\* The step received an event of a persisted kind.
PersistedNext ==
  \/ lastOp'.name = "response.content_part.done" /\ lastOp'.arg # <<>>
  \/ lastOp'.name = "conversation.item.input_audio_transcription.delta"

\* C22: an event of a persisted kind starts its insert and is sent to
\* every open observer in the same handler run, while the insert has not
\* settled, and changes no Session; the settling of an insert, fulfilled
\* or rejected, sends nothing and changes no Session, registry entry or
\* observer.
C22_InsertNeverBlocksBroadcast ==
  [][/\ \A o \in Objs :
          (PersistedNext /\ lastOp'.sid = SidOf(o))
            => /\ inserts' = inserts + 1
               /\ \A f \in OpenObservers : PushedNext(o, lastOp'.name, f)
               /\ UNCHANGED <<sess, sessions, tw>>
     /\ lastOp'.name = "insert.settled"
          => /\ out' = <<>>
             /\ UNCHANGED <<sess, sessions, tw, frontend,
                            frontendConnections, hist>>]_vars

\* A caller transcript partial went to two open observers while its insert
\* is in flight.
C22_Witness ==
  /\ lastOp.name = "conversation.item.input_audio_transcription.delta"
  /\ inserts = 1
  /\ Len(frontendConnections) = 2
  /\ {out[i].arg.conn : i \in {j \in 1..Len(out) : out[j].to = "frontend"}}
       = Observers

\* C23: a malformed message on the telephony socket or on the AI socket
\* is dropped: its handler throws nothing and changes no Session and no
\* registry entry.
C23_MalformedDropped ==
  [][lastOp'.name \in {"twilio.malformed", "model.malformed"}
       => /\ \A i \in 1..Len(out') : out'[i].type # "uncaughtException"
          /\ UNCHANGED <<sess, sessions>>]_vars

\* C25: the hand-off body served for a call that was torn down is the one
\* that call's own Session selected.
C25_HandOffIsOwn ==
  [][\A o \in Objs :
       (lastOp' = Op("escalate", SidOf(o)) /\ IsSet(hist[o].template))
         => \E i \in 1..Len(out') :
              /\ out'[i].type = "escalate"
              /\ out'[i].arg = Val(hist[o].template)]_vars

\* What goes to the AI backend for a function call of the given kind: the
\* function_call_output item, an error payload unless the call succeeded,
\* then response.create.
IsFnReply(seq, o, kind) ==
  /\ Len(seq) = 2
  /\ seq[1].to = "model" /\ seq[1].o = o
  /\ seq[1].type = "conversation.item.create"
  /\ seq[1].arg.type = "function_call_output"
  /\ (kind # "ok") <=> ("error" \in DOMAIN seq[1].arg.output)
  /\ seq[2] = Msg("model", o, "response.create", 0)

NotToFrontend(seq) == SelectSeq(seq, LAMBDA m : m.to # "frontend")

\* C26: a function_call item changes no Session and sends the caller
\* nothing.  When its promise settles (in the handler run itself for an
\* unknown function and for unparsable arguments, in a later step for a
\* call of a known function, whether it returns or throws) and the AI
\* socket is open, exactly the function_call_output item and then
\* response.create go to the AI backend, and nothing is thrown.
C26_FunctionCallAlwaysAnswered ==
  [][\A o \in Objs, kind \in FnKinds :
       /\ lastOp' = OpArg("response.output_item.done", SidOf(o), <<kind>>)
            => /\ UNCHANGED <<sess, sessions, tw>>
               /\ IF SettlesAtOnce(kind)
                    THEN /\ calls' = calls
                         /\ sess[o].modelConn = "open"
                              => IsFnReply(NotToFrontend(out'), o, kind)
                    ELSE /\ calls' = Append(calls, [o |-> o, kind |-> kind])
                         /\ NotToFrontend(out') = <<>>
       /\ lastOp' = OpArg("function.settled", SidOf(o), <<kind>>)
            => /\ UNCHANGED <<sess, sessions, tw>>
               /\ Len(calls') = Len(calls) - 1
               /\ sess[o].modelConn = "open" => IsFnReply(out', o, kind)
               /\ sess[o].modelConn # "open" => out' = <<>>]_vars

\* The promise of a call whose handler threw has settled and the error
\* payload and response.create went to the AI backend.
C26_Witness ==
  /\ lastOp = OpArg("function.settled", "S1", <<"throws">>)
  /\ IsFnReply(out, 1, "throws")
  /\ calls = <<>>

\* C31: a speech_stopped event only sets isSpeechStopped: every other
\* field of its Session (caller state, timer handles and pending timers,
\* lastAssistantItemId, responseStartTimestamp), every other Session, the
\* registry and the sockets are unchanged, and nothing is sent.
C31_SpeechStoppedOnlySetsFlag ==
  [][\A o \in Objs :
       lastOp' = Op("input_audio_buffer.speech_stopped", SidOf(o))
         => /\ sess' = [sess EXCEPT ![o].isSpeechStopped = TRUE]
            /\ UNCHANGED <<sessions, tw>>
            /\ out' = <<>>]_vars

\* speech_stopped reached a Session in caller state speaking whose settle
\* timer is pending and whose assistant turn is recorded.
C31_Witness ==
  /\ lastOp.name = "input_audio_buffer.speech_stopped"
  /\ \E o \in Objs :
       /\ sess[o].isSpeechStopped
       /\ sess[o].callerState = "speaking"
       /\ sess[o].handle.speech = "live"
       /\ IsSet(sess[o].lastAssistantItemId)

\* The Sessions a session.update reaches: registered, AI socket open.
Live == {o \in Objs : Registered(o) /\ sess[o].modelConn = "open"}

\* C32: a session.update message of an observer goes, as it was received,
\* to the AI socket of every registered Session whose AI socket is open,
\* once each, and to nothing else; it changes no Session (it attaches the
\* observer to none, even when it names a stream) and no registry entry.
C32_SessionUpdateFansOut ==
  [][\A f \in Observers, msg \in FrontendMsgs :
       (lastOp' = OpArg("frontend.message", "", <<f, msg>>)
          /\ msg.type = "session.update")
         => /\ Len(out') = Cardinality(Live)
            /\ \A o \in Live :
                 \E i \in 1..Len(out') :
                   out'[i] = Msg("model", o, "session.update", msg)
            /\ UNCHANGED <<sess, sessions, tw, frontend,
                           frontendConnections>>]_vars

\* A session.update that names stream S1 went to the AI sockets of two
\* Sessions and attached its observer to neither.
C32_Witness ==
  /\ lastOp.name = "frontend.message"
  /\ lastOp.arg[2] = FrontendMsg("session.update", Some("S1"), "u1")
  /\ Len(out) = 2
  /\ Cardinality(Live) = 2
  /\ \A o \in Objs : sess[o].frontendConn = None

\* C33: the observers are independent of the Sessions.  A start event, the
\* close of a telephony socket and the events of an AI socket change no
\* observer socket's state and leave in the hub's set every observer that
\* is open.
C33_ObserversIndependentOfSessions ==
  [][lastOp'.name \in {"start", "wsclose", "model.open", "model.close"}
       => /\ frontend' = frontend
          /\ \A f \in OpenObservers :
               \E i \in 1..Len(frontendConnections') :
                 frontendConnections'[i] = f]_vars

\* C34: the attempt ceiling.  Since the last completed signal for a
\* destination (or since the start), at most MAX_RETRIES re-dials have been
\* scheduled for it.
C34_RedialCeiling == \A d \in Dests : scheduled[d] <= MAX_RETRIES

\* The step broadcasts the notice about Session o.
NoticeNext(o, type) ==
  Count(hist'[o].notices, type) > Count(hist[o].notices, type)

\* call.ended has been broadcast for the stream id of Session o.
StreamEnded(o) ==
  \E p \in Objs : SidOf(p) = SidOf(o) /\ EndedCount(p) >= 1

\* C35: the lifecycle notices of one stream id are in order.  A Session's
\* notices start with call.started; session.created is not broadcast for a
\* stream id for which call.ended has been broadcast; and call.ended is
\* broadcast for a stream id at most once.
C35_LifecycleNoticesInOrder ==
  /\ [](\A o \in Objs : hist[o].notices[1] = "call.started")
  /\ [][\A o \in Objs :
          /\ NoticeNext(o, "session.created") => ~StreamEnded(o)
          /\ NoticeNext(o, "call.ended") => ~StreamEnded(o)]_vars

\* C36: when a speech_started event has arrived since the Session entered
\* caller state silence, an expiry of the silence timer in that state does
\* not end the call: no clear is sent and the telephony socket is not
\* closed.
C36_SpeechInSilenceDefersEnd ==
  [][\A o \in Objs :
       (/\ lastOp' = Op("silenceTimer", SidOf(o))
        /\ sess[o].callerState = "silence"
        /\ hist[o].heardInSilence)
         => /\ tw'[sess[o].twilioConn] = tw[sess[o].twilioConn]
            /\ SentNext("clear") = {}]_vars

\* C37: when the last caller-speech event received is speech_started, an
\* expiry of the silence timer does not run handleSilence: the caller
\* state does not become silence and no <<Silence>> prompt is sent.
C37_NoSilencePromptDuringSpeech ==
  [][\A o \in Objs :
       (/\ lastOp' = Op("silenceTimer", SidOf(o))
        /\ hist[o].lastSpeech = "started")
         => /\ sess'[o].callerState = "silence"
                 => sess[o].callerState = "silence"
            /\ SentNext("silence") = {}]_vars

\* C38: escalation is not lost.  Once the trigger_escalation mark of a
\* call has been echoed (its deferred action is pending), the call is
\* eventually escalated: triggerEscalation has run for its Session and
\* neither of its sockets is open.
C38_EscalationNotLost ==
  (Len(sess) >= 1 /\ sess[1].pend.escalation > 0)
    ~> (/\ Len(sess) >= 1
        /\ sess[1].escalationTriggered
        /\ tw[sess[1].twilioConn] # "open"
        /\ sess[1].modelConn # "open")

\* C39: at most one truncate per assistant item.  No truncate is sent for
\* an item for which the Session has requested a truncate before.
C39_OneTruncatePerItem ==
  [][\A i \in SentNext("truncate") :
       out'[i].arg.item_id \notin hist[out'[i].o].truncated]_vars

\* C40: no registry entry is left for a Session whose telephony socket
\* has closed.
C40_NoEntryOnClosedSocket ==
  \A i \in 1..Len(sessions) :
    tw[sess[sessions[i].o].twilioConn] # "closed"

====
